---- MODULE Spec2Model ----
(***************************************************************************)
(* Model of the Kraken API client (package krakenapi): the request         *)
(* dispatcher doRequest, the public and private query wrappers, the        *)
(* request signature and the response adapters of Time, Trades, OHLC,      *)
(* Depth, Balance and CancelOrder.                                         *)
(*                                                                         *)
(* Text that the program formats or parses (decimal numbers, the nonce,    *)
(* trade sides) is a sequence of one-character strings; names that are     *)
(* only compared (pairs, method names, header names) are TLA+ strings.     *)
(* A decoded JSON value is a record whose field k names the JSON kind;    *)
(* the payload is in a field named after the kind (s, n, a, o).  Floating  *)
(* point values are fixed-point integers in units of 10^-FracDigits; JSON  *)
(* numbers are in tenths.                                                  *)
(***************************************************************************)
EXTENDS Integers, Sequences, FiniteSets, TLC

\* ------------------------------------------------------------------ bounds
MinClock == 8        \* smallest reading of the wall clock
MaxClock == 11       \* largest reading of the wall clock
MaxBack == 1         \* how often the wall clock may be set back
MaxPrivCalls == 2    \* private calls made in one behaviour
FracDigits == 4      \* fractional decimal digits kept of a parsed float

\* ------------------------------------------------------- decimal text
Digits == <<"0", "1", "2", "3", "4", "5", "6", "7", "8", "9">>

IsDigit(c) == \E d \in 1..10 : Digits[d] = c

DigitVal(c) == (CHOOSE d \in 1..10 : Digits[d] = c) - 1

RECURSIVE Pow10(_)
Pow10(n) == IF n <= 0 THEN 1 ELSE 10 * Pow10(n - 1)

RECURSIVE FormatNat(_)
FormatNat(n) == IF n < 10 THEN <<Digits[n + 1]>>
                ELSE Append(FormatNat(n \div 10), Digits[(n % 10) + 1])

\* strconv.FormatInt(n, 10), strconv.Itoa(n) and fmt.Sprintf("%d", n)
FormatInt(n) == IF n < 0 THEN <<"-">> \o FormatNat(0 - n) ELSE FormatNat(n)

RECURSIVE DigitsValue(_)
DigitsValue(s) == IF s = <<>> THEN 0
                  ELSE 10 * DigitsValue(SubSeq(s, 1, Len(s) - 1)) + DigitVal(s[Len(s)])

AllDigits(s) == \A i \in 1..Len(s) : IsDigit(s[i])

HasSign(s) == Len(s) > 0 /\ s[1] \in {"+", "-"}

Unsigned(s) == IF HasSign(s) THEN SubSeq(s, 2, Len(s)) ELSE s

SignOf(s) == IF Len(s) > 0 /\ s[1] = "-" THEN 0 - 1 ELSE 1

Integer(sign, u) ==
    IF Len(u) > 0 /\ AllDigits(u) THEN [err |-> FALSE, v |-> sign * DigitsValue(u)]
    ELSE [err |-> TRUE, v |-> 0]

\* strconv.ParseInt(s, 10, 64): an optional sign and at least one digit.
ParseInt(s) == Integer(SignOf(s), Unsigned(s))

PointAt(u) == IF \E i \in 1..Len(u) : u[i] = "."
              THEN CHOOSE i \in 1..Len(u) : u[i] = "." /\ \A j \in 1..(i - 1) : u[j] # "."
              ELSE Len(u) + 1

IntPart(u) == SubSeq(u, 1, PointAt(u) - 1)

FracPart(u) == SubSeq(u, PointAt(u) + 1, Len(u))

Kept(fp) == SubSeq(fp, 1, IF Len(fp) < FracDigits THEN Len(fp) ELSE FracDigits)

\* The value of sign, integer digits ip and fraction digits fp, in units of
\* 10^-FracDigits; an error unless both are digits and one is not empty.
Decimal(sign, ip, fp) ==
    IF AllDigits(ip) /\ AllDigits(fp) /\ Len(ip) + Len(fp) > 0
    THEN [err |-> FALSE,
          v |-> sign * (DigitsValue(ip) * Pow10(FracDigits)
                        + DigitsValue(Kept(fp)) * Pow10(FracDigits - Len(Kept(fp))))]
    ELSE [err |-> TRUE, v |-> 0]

\* strconv.ParseFloat(s, 64) on decimal text without exponent: an optional
\* sign, digits with at most one point and at least one digit.  A syntax
\* error yields the value 0.
ParseFloat(s) == Decimal(SignOf(s), IntPart(Unsigned(s)), FracPart(Unsigned(s)))

\* ------------------------------------------------------------ JSON values
JAbsent == [k |-> "absent"]   \* the key is not in the object
JNull == [k |-> "null"]
JStr(s) == [k |-> "str", s |-> s]
JNum(n) == [k |-> "num", n |-> n]         \* n in tenths
JArr(a) == [k |-> "arr", a |-> a]
JObj(o) == [k |-> "obj", o |-> o]

\* ------------------------------------------------------------- Go values
\* An interface or pointer value: nil, or holding v.
Nil == [nil |-> TRUE, v |-> <<>>]
Val(x) == [nil |-> FALSE, v |-> x]

\* An error value: nil, or an error made at `site` with the text `text`,
\* the text being the sequence of pieces the message is built from.
NoErr == [nil |-> TRUE, site |-> "", text |-> <<>>]
Err(site, text) == [nil |-> FALSE, site |-> site, text |-> text]

\* What a call gave back: st = "returned" with the pair (result, err), or
\* st = "panic" when a run-time panic ended the call.  parsed tells whether
\* json.Unmarshal was applied to the response body.
Returned(result, err, parsed) ==
    [st |-> "returned", result |-> result, err |-> err, parsed |-> parsed]
Panic(parsed) == [st |-> "panic", result |-> Nil, err |-> NoErr, parsed |-> parsed]
NoOut == [st |-> "none", result |-> Nil, err |-> NoErr, parsed |-> FALSE]

\* ------------------------------------------------------------- constants
APIURL == "https://api.kraken.com"
APIVersion == "0"
APIUserAgent == "Kraken-Go Agent"
APIKey == "key"                 \* KrakenPrivate.key
APISecret == "c2VjcmV0"         \* KrakenPrivate.secret

\* ------------------------------------------------------------ url.Values
\* url.Values with one value per key is a function from keys to values.
\* The keys the modelled methods use, in the byte order Encode sorts by.
KeyOrder == <<"count", "interval", "nonce", "pair", "since", "txid">>

\* Values.Encode(): the key=value pairs sorted by key (the values of the
\* model hold no character that is escaped).
Encode(values) ==
    LET ks == SelectSeq(KeyOrder, LAMBDA k : k \in DOMAIN values)
    IN  [i \in 1..Len(ks) |-> <<ks[i], values[ks[i]]>>]

\* Values.Get(key): the value, or the empty string.
Get(values, key) == IF key \in DOMAIN values THEN values[key] ELSE <<>>

\* Values.Set(key, value)
Set(values, key, value) == (key :> value) @@ values

\* -------------------------------------------------------------- signature
\* The hash functions are symbolic constructors: equal digests have equal
\* inputs.  String concatenation a + b is the pair <<a, b>>.
Base64Decode(s) == [b64dec |-> s]
Base64Encode(b) == [b64 |-> b]

getSha256(input) == [sha256 |-> input]

getHMacSha512(message, secret) == [hmac512 |-> message, key |-> secret]

createSignature(urlPath, values, secret) ==
    LET shaSum == getSha256(<<Get(values, "nonce"), Encode(values)>>)
        macSum == getHMacSha512(<<urlPath, shaSum>>, secret)
    IN  Base64Encode(macSum)

\* --------------------------------------------------------------- requests
NoReq == [verb |-> "", url |-> <<>>, body |-> <<>>, headers |-> <<>>]

\* The request doRequest builds: POST, the encoded values as body, the
\* User-Agent and then the caller's headers.  (http.NewRequest cannot fail:
\* the verb is "POST" and the URL is made of constants and a method name.)
NewRequest(reqURL, values, headers) ==
    [verb |-> "POST", url |-> reqURL, body |-> Encode(values),
     headers |-> headers @@ ("User-Agent" :> APIUserAgent)]

\* ------------------------------------------------------------ media types
\* A Content-Type header value: the type as written and its parameters
\* ("none", "charset" for a well-formed charset parameter, "bad" for a
\* parameter without a value).  type = "" is a response without the header.
Lower(s) == IF s = "Application/JSON" THEN "application/json" ELSE s

\* mime.ParseMediaType: the lower-cased type without its parameters; an
\* error for an empty value and for a malformed parameter.
ParseMediaType(ct) ==
    IF ct.type = "" THEN [mediatype |-> "", err |-> TRUE, msg |-> "mime: no media type"]
    ELSE IF ct.params = "bad"
         THEN [mediatype |-> Lower(ct.type), err |-> TRUE,
               msg |-> "mime: invalid media parameter"]
         ELSE [mediatype |-> Lower(ct.type), err |-> FALSE, msg |-> ""]

\* ---------------------------------------------------------- json decoding
\* The target shapes a caller hands to doRequest: "none" is typ == nil.
ZeroOf(typ) ==
    CASE typ = "TimeResponse" -> [unixtime |-> 0]
      [] typ = "CancelOrderResponse" -> [count |-> 0]
      [] OTHER -> <<>>

Integral(j) == j.k = "num" /\ j.n % 10 = 0

\* A JSON value decoded into a struct whose fields `keys` are integers:
\* unknown keys are ignored, absent and null fields keep the zero value.
DecodeStruct(r, keys) ==
    IF r.k # "obj" THEN [err |-> TRUE, v |-> [f \in keys |-> 0]]
    ELSE [err |-> \E f \in keys \cap DOMAIN r.o : r.o[f].k # "null" /\ ~Integral(r.o[f]),
          v |-> [f \in keys |-> IF f \in DOMAIN r.o /\ Integral(r.o[f])
                                THEN r.o[f].n \div 10 ELSE 0]]

\* A JSON value decoded into map[string]string.
DecodeStringMap(r) ==
    IF r.k # "obj" THEN [err |-> TRUE, v |-> <<>>]
    ELSE [err |-> \E a \in DOMAIN r.o : r.o[a].k \notin {"str", "null"},
          v |-> [a \in DOMAIN r.o |-> IF r.o[a].k = "str" THEN r.o[a].s ELSE <<>>]]

\* The level made of the parsed price and volume and the timestamp.
OrderBookItem(price, amount, ts) ==
    [err |-> price.err \/ amount.err,
     v |-> [Price |-> price.v, Amount |-> amount.v, Ts |-> ts \div 10]]

\* One order book level [priceStr, volumeStr, timestamp].
DecodeOrderBookItem(j) ==
    IF /\ j.k = "arr" /\ Len(j.a) = 3
       /\ j.a[1].k = "str" /\ j.a[2].k = "str" /\ Integral(j.a[3])
    THEN OrderBookItem(ParseFloat(j.a[1].s), ParseFloat(j.a[2].s), j.a[3].n)
    ELSE [err |-> TRUE, v |-> [Price |-> 0, Amount |-> 0, Ts |-> 0]]

\* A sequence or map ds of decoded parts [err, v] as one decoded value.
Collect(ds) == [err |-> \E i \in DOMAIN ds : ds[i].err, v |-> [i \in DOMAIN ds |-> ds[i].v]]

\* One side of an order book: a JSON array of levels, kept in its order.
DecodeOrderBookSide(o, side) ==
    IF side \notin DOMAIN o \/ o[side].k = "null" THEN [err |-> FALSE, v |-> <<>>]
    ELSE IF o[side].k # "arr" THEN [err |-> TRUE, v |-> <<>>]
    ELSE Collect([i \in 1..Len(o[side].a) |-> DecodeOrderBookItem(o[side].a[i])])

OrderBook(asks, bids) ==
    [err |-> asks.err \/ bids.err, v |-> [Asks |-> asks.v, Bids |-> bids.v]]

DecodeOrderBook(j) ==
    IF j.k # "obj" THEN [err |-> TRUE, v |-> [Asks |-> <<>>, Bids |-> <<>>]]
    ELSE OrderBook(DecodeOrderBookSide(j.o, "asks"), DecodeOrderBookSide(j.o, "bids"))

\* A JSON value decoded into DepthResponse, a map from pair to OrderBook.
DecodeDepthResponse(r) ==
    IF r.k # "obj" THEN [err |-> TRUE, v |-> <<>>]
    ELSE Collect([a \in DOMAIN r.o |-> DecodeOrderBook(r.o[a])])

DecodeTyped(r, typ) ==
    CASE typ = "TimeResponse" -> DecodeStruct(r, {"unixtime"})
      [] typ = "CancelOrderResponse" -> DecodeStruct(r, {"count"})
      [] typ = "StringMap" -> DecodeStringMap(r)
      [] typ = "DepthResponse" -> DecodeDepthResponse(r)

\* The interface and the target after the decoded value d went into typ.
Stored(d) == [err |-> d.err, iface |-> Val(d.v), target |-> d.v]

\* The "result" member decoded into KrakenResponse.Result, an interface
\* that holds typ (a pointer to the target) when typ is given.  iface is
\* the interface afterwards, target the value typ points to afterwards.
\* An absent member changes nothing; null sets the interface to nil and
\* leaves the target alone; with no target any JSON value decodes into
\* the generic tree.
DecodeResult(r, typ) ==
    IF r.k = "absent"
    THEN [err |-> FALSE, iface |-> IF typ = "none" THEN Nil ELSE Val(ZeroOf(typ)),
          target |-> ZeroOf(typ)]
    ELSE IF r.k = "null" THEN [err |-> FALSE, iface |-> Nil, target |-> ZeroOf(typ)]
    ELSE IF typ = "none" THEN [err |-> FALSE, iface |-> Val(r), target |-> <<>>]
    ELSE Stored(DecodeTyped(r, typ))

\* The "error" member decoded into KrakenResponse.Error, a []string.
DecodeError(e) ==
    IF e.k \in {"absent", "null"} THEN [err |-> FALSE, v |-> <<>>]
    ELSE IF e.k # "arr" THEN [err |-> TRUE, v |-> <<>>]
    ELSE [err |-> \E i \in 1..Len(e.a) : e.a[i].k \notin {"str", "null"},
          v |-> [i \in 1..Len(e.a) |-> IF e.a[i].k = "str" THEN e.a[i].s ELSE ""]]

\* The KrakenResponse after its members decoded as e and r.
Envelope(e, r) ==
    [err |-> e.err \/ r.err, msg |-> "json: cannot unmarshal",
     Error |-> e.v, Result |-> r.iface, target |-> r.target]

\* json.Unmarshal(body, &jsonData) with jsonData.Result preset to typ.  A
\* body is [syn, error, result]: syn = "bad" is text that is not JSON,
\* syn = "arr" a JSON array instead of the envelope object, syn = "ok" an
\* object with the members error and result.
Unmarshal(body, typ) ==
    IF body.syn = "bad"
    THEN [err |-> TRUE, msg |-> "invalid character", Error |-> <<>>,
          Result |-> Nil, target |-> ZeroOf(typ)]
    ELSE IF body.syn = "arr"
    THEN [err |-> TRUE, msg |-> "json: cannot unmarshal array", Error |-> <<>>,
          Result |-> Nil, target |-> ZeroOf(typ)]
    ELSE Envelope(DecodeError(body.error), DecodeResult(body.result, typ))

\* ------------------------------------------------------------- doRequest
RECURSIVE JoinSp(_)
JoinSp(ss) == IF Len(ss) = 0 THEN <<>>
              ELSE IF Len(ss) = 1 THEN <<ss[1]>>
              ELSE <<ss[1], " ">> \o JoinSp(Tail(ss))

\* fmt.Sprintf("%s", ss) of a []string: "[a b c]"
SprintStrings(ss) == <<"[">> \o JoinSp(ss) \o <<"]">>

RequestError(site, inner) ==
    Err(site, <<"Could not execute request! ", site, " (">> \o inner \o <<")">>)

Failed(err, parsed, typ) ==
    [result |-> Nil, err |-> err, parsed |-> parsed, target |-> ZeroOf(typ)]

\* doRequest from the parsed envelope un on, lines 69-78.
CheckEnvelope(un, typ) ==
    IF un.err THEN Failed(RequestError("#6", <<un.msg>>), TRUE, typ)
    ELSE IF Len(un.Error) > 0
    THEN [result |-> Nil, err |-> RequestError("#7", SprintStrings(un.Error)),
          parsed |-> TRUE, target |-> un.target]
    ELSE [result |-> un.Result, err |-> NoErr, parsed |-> TRUE, target |-> un.target]

\* A doRequest that parses the body before it looks at the content type.
CheckResponse_ParseFirst(pm, body, typ) ==
    IF Unmarshal(body, typ).err
    THEN Failed(RequestError("#6", <<Unmarshal(body, typ).msg>>), TRUE, typ)
    ELSE IF pm.err THEN Failed(RequestError("#4", <<pm.msg>>), TRUE, typ)
    ELSE IF pm.mediatype # "application/json"
    THEN Failed(RequestError("#5", <<"Response Content-Type is '", pm.mediatype,
                                     "', but should be 'application/json'.">>), TRUE, typ)
    ELSE CheckEnvelope(Unmarshal(body, typ), typ)

\* doRequest from the parsed media type pm on, lines 52-78.
CheckResponse(pm, body, typ) ==
    IF pm.err THEN Failed(RequestError("#4", <<pm.msg>>), FALSE, typ)
    ELSE IF pm.mediatype # "application/json"
    THEN Failed(RequestError("#5", <<"Response Content-Type is '", pm.mediatype,
                                     "', but should be 'application/json'.">>), FALSE, typ)
    ELSE CheckEnvelope(Unmarshal(body, typ), typ)

\* doRequest from client.Do on: o is what the transport does with the
\* request, typ the target shape.  Gives the returned pair (result, err),
\* whether the body was parsed, and the value typ points to afterwards.
doRequest(o, typ) ==
    IF o.kind = "doerr" THEN Failed(RequestError("#2", <<"transport error">>), FALSE, typ)
    ELSE IF o.kind = "readerr" THEN Failed(RequestError("#3", <<"read error">>), FALSE, typ)
    ELSE CheckResponse(ParseMediaType(o.ct), o.body, typ)

\* ---------------------------------------------------- query wrappers
\* queryPublic up to the hand-over to the transport: the request that
\* doRequest sends for `method` with `values` and no extra header.
queryPublic(method, values) ==
    NewRequest(<<APIURL, <<"/", APIVersion, "/public/", method>>>>, values, <<>>)

\* A queryPrivate that signs the values before the nonce is set.
queryPrivate_SignBeforeNonce(method, values, t) ==
    NewRequest(<<APIURL, <<"/", APIVersion, "/private/", method>>>>,
               Set(values, "nonce", FormatInt(t)),
               ("API-Key" :> APIKey)
               @@ ("API-Sign" :> createSignature(<<"/", APIVersion, "/private/", method>>,
                                                 values, Base64Decode(APISecret))))

\* A queryPrivate that takes the clock in units of two ticks.
queryPrivate_CoarseClock(method, values, t) ==
    NewRequest(<<APIURL, <<"/", APIVersion, "/private/", method>>>>,
               Set(values, "nonce", FormatInt(t \div 2)),
               ("API-Key" :> APIKey)
               @@ ("API-Sign" :> createSignature(<<"/", APIVersion, "/private/", method>>,
                                                 Set(values, "nonce", FormatInt(t \div 2)),
                                                 Base64Decode(APISecret))))

\* queryPrivate up to the hand-over to the transport; t is the reading
\* time.Now().UnixNano() it takes for the nonce.
queryPrivate(method, values, t) ==
    LET urlPath == <<"/", APIVersion, "/private/", method>>
        reqURL == <<APIURL, urlPath>>
        secret == Base64Decode(APISecret)
        signed == Set(values, "nonce", FormatInt(t))
        signature == createSignature(urlPath, signed, secret)
        headers == ("API-Key" :> APIKey) @@ ("API-Sign" :> signature)
    IN  NewRequest(reqURL, signed, headers)

\* ----------------------------------------------------- parameter building
\* The values a call is made with, before queryPrivate adds the nonce.
SinceValues(since) == IF since > 0 THEN ("since" :> FormatInt(since)) ELSE <<>>

TradesValues(pair, since) == SinceValues(since) @@ ("pair" :> pair)

SupportedIntervals ==
    { <<"1">>, <<"5">>, <<"1", "5">>, <<"3", "0">>, <<"6", "0">>, <<"2", "4", "0">>,
      <<"1", "4", "4", "0">>, <<"1", "0", "0", "8", "0">>, <<"2", "1", "6", "0", "0">> }

\* An OHLC that sends whatever interval it is given.
OHLCValues_AnyInterval(pair, interval, since) ==
    IF interval = <<>>
    THEN [ok |-> TRUE, values |-> ("interval" :> <<"1">>) @@ SinceValues(since) @@ ("pair" :> pair)]
    ELSE [ok |-> TRUE, values |-> ("interval" :> interval) @@ SinceValues(since) @@ ("pair" :> pair)]

\* OHLC, lines 84-100: ok = FALSE when the interval is rejected.
OHLCValues(pair, interval, since) ==
    IF interval = <<>>
    THEN [ok |-> TRUE, values |-> ("interval" :> <<"1">>) @@ SinceValues(since) @@ ("pair" :> pair)]
    ELSE IF interval \in SupportedIntervals
    THEN [ok |-> TRUE, values |-> ("interval" :> interval) @@ SinceValues(since) @@ ("pair" :> pair)]
    ELSE [ok |-> FALSE, values |-> SinceValues(since) @@ ("pair" :> pair)]

DepthValues(pair, count) == ("pair" :> pair) @@ ("count" :> FormatInt(count))

CancelOrderValues(txid) == ("txid" :> txid)

\* --------------------------------------------------------- Time, CancelOrder
\* A method that passes a pointer to a struct and asserts the result to be
\* that pointer: the assertion on a nil interface panics.
TypedReturn(d) ==
    IF ~d.err.nil THEN Returned(Nil, d.err, d.parsed)
    ELSE IF d.result.nil THEN Panic(d.parsed)
    ELSE Returned(d.result, NoErr, d.parsed)

\* ------------------------------------------------------------------ Trades
BUY == <<"b">>
SELL == <<"s">>
MARKET == <<"m">>
LIMIT == <<"l">>

\* int64(f) of a float64 held in tenths: truncation towards zero.
Trunc(n) == IF n < 0 THEN 0 - ((0 - n) \div 10) ELSE n \div 10

\* The type assertions made on one trade array succeed.
TradeAsserts(t) ==
    /\ t.k = "arr" /\ Len(t.a) >= 6
    /\ t.a[1].k = "str" /\ t.a[2].k = "str" /\ t.a[3].k = "num"
    /\ t.a[4].k = "str" /\ t.a[5].k = "str" /\ t.a[6].k = "str"

\* The TradeInfo of trade array t with the parsed price and volume.
TradeInfo(t, price, volume) ==
    [Price |-> t.a[1].s, PriceFloat |-> price.v,
     Volume |-> t.a[2].s, VolumeFloat |-> volume.v,
     Time |-> Trunc(t.a[3].n),
     Buy |-> t.a[4].s = BUY, Sell |-> t.a[4].s = SELL,
     Market |-> t.a[5].s = MARKET, Limit |-> t.a[5].s = LIMIT,
     Miscellaneous |-> t.a[6].s]

\* The TradeInfo built from one trade array, lines 162-181: the errors of
\* both ParseFloat calls are dropped.
NewTradeInfo(t) == TradeInfo(t, ParseFloat(t.a[1].s), ParseFloat(t.a[2].s))

ParseError(fn, s) == Err(fn, <<"strconv.", fn, ": parsing ">> \o s \o <<": invalid syntax">>)

\* Trades from the parsed `last` on, lines 151-186.
TradesResult(last, v, pair, parsed) ==
    IF last.err THEN Returned(Nil, ParseError("ParseInt", v["last"].s), parsed)
    ELSE IF pair \notin DOMAIN v \/ v[pair].k # "arr" THEN Panic(parsed)
    ELSE IF \E i \in 1..Len(v[pair].a) : ~TradeAsserts(v[pair].a[i]) THEN Panic(parsed)
    ELSE Returned(Val([Last |-> last.v,
                       Trades |-> [i \in 1..Len(v[pair].a) |-> NewTradeInfo(v[pair].a[i])]]),
                  NoErr, parsed)

\* Trades after queryPublic returned d, lines 144-186.
TradesReturn(d, pair) ==
    IF ~d.err.nil THEN Returned(Nil, d.err, d.parsed)
    ELSE IF d.result.nil \/ d.result.v.k # "obj" THEN Panic(d.parsed)
    ELSE IF "last" \notin DOMAIN d.result.v.o \/ d.result.v.o["last"].k # "str"
    THEN Panic(d.parsed)
    ELSE TradesResult(ParseInt(d.result.v.o["last"].s), d.result.v.o, pair, d.parsed)

\* ------------------------------------------------------------------- Depth
\* A Depth that returns the book of a pair that was not asked for.
DepthReturn_OtherPair(d, pair) ==
    IF ~d.err.nil THEN Returned(Nil, d.err, d.parsed)
    ELSE IF \E a \in DOMAIN d.target : a # pair
    THEN Returned(Val(d.target[CHOOSE a \in DOMAIN d.target : a # pair]), NoErr, d.parsed)
    ELSE IF pair \in DOMAIN d.target THEN Returned(Val(d.target[pair]), NoErr, d.parsed)
    ELSE Returned(Nil, Err("Depth", <<"invalid response">>), d.parsed)

\* The levels of s in the opposite order.
ReverseLevels(s) == [i \in 1..Len(s) |-> s[Len(s) + 1 - i]]

\* A Depth that returns the asks of the book in the opposite order.
DepthReturn_Reversed(d, pair) ==
    IF ~d.err.nil THEN Returned(Nil, d.err, d.parsed)
    ELSE IF pair \in DOMAIN d.target
    THEN Returned(Val([Asks |-> ReverseLevels(d.target[pair].Asks),
                       Bids |-> d.target[pair].Bids]), NoErr, d.parsed)
    ELSE Returned(Nil, Err("Depth", <<"invalid response">>), d.parsed)

\* Depth after queryPublic returned d, lines 196-204: dr is the target.
DepthReturn(d, pair) ==
    IF ~d.err.nil THEN Returned(Nil, d.err, d.parsed)
    ELSE IF pair \in DOMAIN d.target THEN Returned(Val(d.target[pair]), NoErr, d.parsed)
    ELSE Returned(Nil, Err("Depth", <<"invalid response">>), d.parsed)

\* ----------------------------------------------------------------- Balance
\* The loop of Balance over the entries of m, visited in `order`.
RECURSIVE BalanceLoop_Rest(_, _, _, _)
\* A Balance that skips a value that does not parse.
BalanceStep_SkipBad(m, order, balances, parsed, value) ==
    IF value.err THEN BalanceLoop_Rest(m, Tail(order), balances, parsed)
    ELSE BalanceLoop_Rest(m, Tail(order), (Head(order) :> value.v) @@ balances, parsed)

BalanceLoop_Rest(m, order, balances, parsed) ==
    IF order = <<>> THEN Returned(Val(balances), NoErr, parsed)
    ELSE BalanceStep_SkipBad(m, order, balances, parsed, ParseFloat(m[Head(order)]))

RECURSIVE BalanceLoop(_, _, _, _)
BalanceStep(m, order, balances, parsed, value) ==
    IF value.err THEN Returned(Nil, ParseError("ParseFloat", m[Head(order)]), parsed)
    ELSE BalanceLoop(m, Tail(order), (Head(order) :> value.v) @@ balances, parsed)

BalanceLoop(m, order, balances, parsed) ==
    IF order = <<>> THEN Returned(Val(balances), NoErr, parsed)
    ELSE BalanceStep(m, order, balances, parsed, ParseFloat(m[Head(order)]))

\* Balance after queryPrivate returned d, lines 100-111.
BalanceReturn(d, order) ==
    IF ~d.err.nil THEN Returned(Nil, d.err, d.parsed)
    ELSE IF d.result.nil THEN Panic(d.parsed)
    ELSE BalanceLoop(d.result.v, order, <<>>, d.parsed)

\* The orders a range over a map with the key set S may visit it in.
Orders(S) == { s \in [1..Cardinality(S) -> S] : \A i, j \in DOMAIN s : s[i] = s[j] => i = j }

\* -------------------------------------------------------------------- OHLC
\* One candle: time, open, high, low, close, vwap, volume, count.  A wrong
\* length or a field that is not numeric is an error.
NewOHLC(a) ==
    IF /\ Len(a) = 8 /\ a[1].k = "num" /\ Integral(a[8])
       /\ \A i \in 2..7 : a[i].k = "str"
    THEN Collect([Time |-> [err |-> FALSE, v |-> Trunc(a[1].n)],
                  Open |-> ParseFloat(a[2].s), High |-> ParseFloat(a[3].s),
                  Low |-> ParseFloat(a[4].s), Close |-> ParseFloat(a[5].s),
                  Vwap |-> ParseFloat(a[6].s), Volume |-> ParseFloat(a[7].s),
                  Count |-> [err |-> FALSE, v |-> a[8].n \div 10]])
    ELSE [err |-> TRUE, v |-> <<>>]

\* The loop of OHLC over the candles, lines 114-121: st is "ok", "err"
\* (NewOHLC failed) or "panic" (an element is not an array).
RECURSIVE OHLCLoop(_, _)
OHLCStep(items, acc, candle) ==
    IF candle.err THEN [st |-> "err", v |-> acc]
    ELSE OHLCLoop(Tail(items), Append(acc, candle.v))

OHLCLoop(items, acc) ==
    IF items = <<>> THEN [st |-> "ok", v |-> acc]
    ELSE IF Head(items).k # "arr" THEN [st |-> "panic", v |-> acc]
    ELSE OHLCStep(items, acc, NewOHLC(Head(items).a))

\* OHLC from the end of the loop on, lines 114-126.
OHLCResult(loop, mapResponse, pair, parsed) ==
    IF loop.st = "panic" THEN Panic(parsed)
    ELSE IF loop.st = "err"
    THEN Returned(Nil, Err("NewOHLC", <<"malformed candle">>), parsed)
    ELSE IF "last" \notin DOMAIN mapResponse \/ mapResponse["last"].k # "num"
    THEN Panic(parsed)
    ELSE Returned(Val([Pair |-> pair, OHLC |-> loop.v,
                       Last |-> Trunc(mapResponse["last"].n)]), NoErr, parsed)

\* OHLC after queryPublic returned d, lines 104-126.
OHLCReturn(d, pair) ==
    IF ~d.err.nil THEN Returned(Nil, d.err, d.parsed)
    ELSE IF d.result.nil \/ d.result.v.k # "obj" THEN Panic(d.parsed)
    ELSE IF pair \notin DOMAIN d.result.v.o \/ d.result.v.o[pair].k # "arr"
    THEN Panic(d.parsed)
    ELSE OHLCResult(OHLCLoop(d.result.v.o[pair].a, <<>>), d.result.v.o, pair, d.parsed)

\* ---------------------------------------------------------------- methods
PublicMethods == {"Time", "Trades", "OHLC", "OHLCMinutes", "Depth"}
PrivateMethods == {"Balance", "CancelOrder"}

\* The target shape each method hands to doRequest.
TypOf(m) ==
    CASE m = "Time" -> "TimeResponse"
      [] m = "CancelOrder" -> "CancelOrderResponse"
      [] m = "Balance" -> "StringMap"
      [] m = "Depth" -> "DepthResponse"
      [] OTHER -> "none"

\* A call: the method and its arguments (those the method does not take
\* keep the values of NoCall).
NoCall == [m |-> "", pair |-> "", interval |-> <<>>, since |-> 0, count |-> 0, txid |-> ""]

\* What the method of call c does once doRequest gave d; ord is the order
\* in which Balance's range visits the map.
Finish(c, d, ord) ==
    CASE c.m \in {"Time", "CancelOrder"} -> TypedReturn(d)
      [] c.m = "Trades" -> TradesReturn(d, c.pair)
      [] c.m \in {"OHLC", "OHLCMinutes"} -> OHLCReturn(d, c.pair)
      [] c.m = "Depth" -> DepthReturn(d, c.pair)
      [] c.m = "Balance" -> BalanceReturn(d, ord)

\* ----------------------------------------------------------------- inputs
\* The arguments callers pass.
Pairs == {"XXBTZEUR"}
Sinces == {0, 5}
Intervals ==
    { <<>>, <<"1">>, <<"1", "5">>, <<"2", "1", "6", "0", "0">>, <<"7">>, <<"1", "0">> }
Counts == {1, 2}
Txids == {"OABC"}

\* The Content-Type header values servers answer with.
CTJson == [type |-> "application/json", params |-> "none"]
CTJsonCharset == [type |-> "Application/JSON", params |-> "charset"]
CTOther == { [type |-> "text/html", params |-> "charset"],
             [type |-> "text/plain", params |-> "none"],
             [type |-> "", params |-> "none"],
             [type |-> "application/json", params |-> "bad"] }

\* The "error" members: absent, empty, one or two messages, and a string
\* where the array should be.
ErrorMembers ==
    { JAbsent, JArr(<<>>), JArr(<<JStr("EOrder:Unknown order")>>),
      JArr(<<JStr("EAPI:Invalid nonce"), JStr("EGeneral:Internal error")>>),
      JStr("EGeneral:Internal error") }

\* The "result" members every method may be answered with.
AnyResults == { JAbsent, JNull, JStr(<<"x">>), JArr(<<>>) }

IntStructResults(key) ==
    { JObj(key :> JNum(120)), JObj(key :> JNum(15)), JObj(key :> JStr(<<"1">>)),
      JObj(<<>>) }

GoodTrade == JArr(<<JStr(<<"4", "0", "0", "0", ".", "0">>), JStr(<<"0", ".", "5">>), JNum(16000), JStr(<<"b">>), JStr(<<"m">>), JStr(<<"t">>)>>)
SellLimitTrade == JArr(<<JStr(<<"4", "0", "0", "1", ".", "5">>), JStr(<<"1", ".", "2", "5">>), JNum(16015), JStr(<<"s">>), JStr(<<"l">>), JStr(<<"t">>)>>)

TradeLists ==
    { <<>>, <<GoodTrade>>, <<GoodTrade, SellLimitTrade>>,
      <<JArr(<<JStr(<<"4", "0", "0", "0", ".", "0">>), JStr(<<"0", ".", "5">>), JNum(16000), JStr(<<"x">>), JStr(<<"m">>), JStr(<<"t">>)>>)>>,
      <<JArr(<<JStr(<<"4", "0", "0", "0", ".", "0">>), JStr(<<"0", ".", "5">>), JNum(16000), JStr(<<"s">>), JStr(<<"q">>), JStr(<<"t">>)>>)>>,
      <<JArr(<<JStr(<<"a", "b", "c">>), JStr(<<"0", ".", "5">>), JNum(16000), JStr(<<"b">>), JStr(<<"m">>), JStr(<<"t">>)>>)>>,
      <<JArr(<<JStr(<<"4", "0", "0", "0", ".", "0">>), JStr(<<"a", "b", "c">>), JNum(16000), JStr(<<"b">>), JStr(<<"l">>), JStr(<<"t">>)>>)>>,
      <<JArr(<<JStr(<<"4", "0", "0", "0", ".", "0">>), JStr(<<"0", ".", "5">>), JNum(16000), JStr(<<"b">>), JStr(<<"m">>)>>)>>,
      <<JArr(<<JNum(40000), JStr(<<"0", ".", "5">>), JNum(16000), JStr(<<"b">>), JStr(<<"m">>), JStr(<<"t">>)>>)>>,
      <<JStr(<<"x">>)>> }

TradesResults(pair) ==
    { JObj((pair :> JArr(ts)) @@ ("last" :> JStr(<<"1", "2", "3">>))) : ts \in TradeLists }
    \cup { JObj((pair :> JArr(<<GoodTrade>>)) @@ ("last" :> JStr(<<"1", "2", "x">>))),
           JObj((pair :> JArr(<<GoodTrade>>)) @@ ("last" :> JNum(120))),
           JObj(pair :> JArr(<<GoodTrade>>)),
           JObj("last" :> JStr(<<"1", "2", "3">>)) }

GoodCandle == JArr(<<JNum(600), JStr(<<"1", ".", "0">>), JStr(<<"2", ".", "0">>), JStr(<<"0", ".", "5">>), JStr(<<"1", ".", "5">>), JStr(<<"1", ".", "2">>), JStr(<<"3", ".", "0">>), JNum(70)>>)

CandleLists ==
    { <<>>, <<GoodCandle>>, <<GoodCandle, GoodCandle>>,
      <<JArr(<<JNum(600), JStr(<<"1", ".", "0">>), JStr(<<"2", ".", "0">>), JStr(<<"0", ".", "5">>), JStr(<<"1", ".", "5">>), JStr(<<"1", ".", "2">>), JStr(<<"3", ".", "0">>)>>)>>,
      <<JArr(<<JNum(600), JStr(<<"a", "b", "c">>), JStr(<<"2", ".", "0">>), JStr(<<"0", ".", "5">>), JStr(<<"1", ".", "5">>), JStr(<<"1", ".", "2">>), JStr(<<"3", ".", "0">>), JNum(70)>>)>>,
      <<JArr(<<JNum(600), JStr(<<"a", "b", "c">>), JStr(<<"2", ".", "0">>), JStr(<<"0", ".", "5">>), JStr(<<"1", ".", "5">>), JStr(<<"1", ".", "2">>), JStr(<<"3", ".", "0">>), JNum(70)>>), JNull>>,
      <<JNull>> }

OHLCResults(pair) ==
    { JObj((pair :> JArr(cl)) @@ ("last" :> JNum(600))) : cl \in CandleLists }
    \cup { JObj(pair :> JArr(<<GoodCandle>>)),
           JObj((pair :> JArr(<<GoodCandle>>)) @@ ("last" :> JStr(<<"1", "2", "3">>))),
           JObj("last" :> JNum(600)) }

Level1 == JArr(<<JStr(<<"1", "0", ".", "5">>), JStr(<<"1", ".", "0">>), JNum(100)>>)
Level2 == JArr(<<JStr(<<"1", "0", ".", "6">>), JStr(<<"2", ".", "0">>), JNum(110)>>)
Level3 == JArr(<<JStr(<<"1", "0", ".", "4">>), JStr(<<"0", ".", "2", "5">>), JNum(120)>>)

LevelLists ==
    { <<>>, <<Level1>>, <<Level2, Level1>>, <<Level1, Level1, Level3>>,
      <<Level3, Level2, Level1>> }

BadLevel == JArr(<<JStr(<<"a", "b", "c">>), JStr(<<"1", ".", "0">>), JNum(100)>>)

DepthResults(pair) ==
    { JObj(pair :> JObj(("asks" :> JArr(a)) @@ ("bids" :> JArr(b)))) :
        a \in LevelLists, b \in LevelLists }
    \cup { JObj(pair :> JObj(("asks" :> JArr(<<BadLevel>>)) @@ ("bids" :> JArr(<<>>)))),
           JObj(pair :> JObj("asks" :> JArr(<<Level1>>))),
           JObj("XETHZEUR" :> JObj(("asks" :> JArr(<<Level1>>)) @@ ("bids" :> JArr(<<>>)))),
           JObj((pair :> JObj(("asks" :> JArr(<<Level1>>)) @@ ("bids" :> JArr(<<>>))))
                @@ ("XETHZEUR" :> JObj(("asks" :> JArr(<<Level1, Level2, Level3>>))
                                       @@ ("bids" :> JArr(<<Level2, Level3>>))))),
           JObj(<<>>) }

BalanceResults ==
    { JObj(("ZUSD" :> JStr(<<"1", "0", "0", ".", "5", "0", "0", "0">>)) @@ ("XXBT" :> JStr(<<"0", ".", "0", "0", "1", "0">>))),
      JObj(("ZUSD" :> JStr(<<"1", "0", "0", ".", "5", "0", "0", "0">>)) @@ ("XXBT" :> JStr(<<"a", "b", "c">>))),
      JObj(("ZUSD" :> JStr(<<"a", "b", "c">>)) @@ ("XXBT" :> JStr(<<"0", ".", "0", "0", "1", "0">>))),
      JObj(("ZUSD" :> JStr(<<"a", "b", "c">>)) @@ ("XXBT" :> JStr(<<"1", ".", "2", ".", "3">>))),
      JObj(("ZUSD" :> JStr(<<"1", "0", "0", ".", "5", "0", "0", "0">>)) @@ ("XXBT" :> JNull)),
      JObj(("ZUSD" :> JStr(<<"1", "0", "0", ".", "5", "0", "0", "0">>)) @@ ("XXBT" :> JNum(10))),
      JObj("ZUSD" :> JStr(<<"1", "0", "0", ".", "5", "0", "0", "0">>)),
      JObj(<<>>) }

\* The "result" members a call may be answered with.
Results(c) ==
    AnyResults \cup
    CASE c.m = "Time" -> IntStructResults("unixtime")
      [] c.m = "CancelOrder" -> IntStructResults("count")
      [] c.m = "Trades" -> TradesResults(c.pair)
      [] c.m \in {"OHLC", "OHLCMinutes"} -> OHLCResults(c.pair)
      [] c.m = "Depth" -> DepthResults(c.pair)
      [] c.m = "Balance" -> BalanceResults

NoBody == [syn |-> "none", error |-> JAbsent, result |-> JAbsent]
BadBodies == { [syn |-> "bad", error |-> JAbsent, result |-> JAbsent],
               [syn |-> "arr", error |-> JAbsent, result |-> JAbsent] }

Envelopes(c) == [syn : {"ok"}, error : ErrorMembers, result : Results(c)]

\* An envelope that reports success to call c.
SuccessBody(c) ==
    [syn |-> "ok", error |-> JArr(<<>>),
     result |-> CASE c.m = "Time" -> JObj("unixtime" :> JNum(120))
                  [] c.m = "CancelOrder" -> JObj("count" :> JNum(120))
                  [] c.m = "Trades" ->
                       JObj((c.pair :> JArr(<<GoodTrade>>)) @@ ("last" :> JStr(<<"1", "2", "3">>)))
                  [] c.m \in {"OHLC", "OHLCMinutes"} ->
                       JObj((c.pair :> JArr(<<GoodCandle>>)) @@ ("last" :> JNum(600)))
                  [] c.m = "Depth" ->
                       JObj(c.pair :> JObj(("asks" :> JArr(<<Level1>>))
                                           @@ ("bids" :> JArr(<<Level1>>))))
                  [] c.m = "Balance" -> JObj("ZUSD" :> JStr(<<"1", "0", "0", ".", "5", "0", "0", "0">>))]

\* What the transport may do with the request of call c: fail, fail while
\* the body is read, or deliver a response.
NoResp == [kind |-> "none", ct |-> [type |-> "", params |-> "none"], body |-> NoBody]

Outcomes(c) ==
    { [kind |-> "doerr", ct |-> NoResp.ct, body |-> NoBody] }
    \cup [kind : {"readerr"}, ct : {CTJson} \cup CTOther, body : {NoBody}]
    \cup [kind : {"resp"}, ct : CTOther, body : BadBodies \cup {SuccessBody(c)}]
    \cup [kind : {"resp"}, ct : {CTJsonCharset}, body : BadBodies \cup {SuccessBody(c)}]
    \cup [kind : {"resp"}, ct : {CTJson}, body : BadBodies \cup Envelopes(c)]

\* The outcomes used where only the clock and the nonces matter.
FewOutcomes(c) ==
    { [kind |-> "doerr", ct |-> NoResp.ct, body |-> NoBody],
      [kind |-> "resp", ct |-> CTJson, body |-> SuccessBody(c)] }

\* ------------------------------------------------------------------ state
VARIABLES
    procs,     \* the call sites (goroutines) that use the client
    pc,        \* pc[p]: "idle", "waiting" (request with the transport), "done"
    call,      \* call[p]: the call p is making
    req,       \* req[p]: the request p handed to the transport
    nsent,     \* nsent[p]: requests handed to the transport by the current call
    resp,      \* resp[p]: what the transport did with the request
    out,       \* out[p]: what the call gave back
    now,       \* the wall clock, time.Now().UnixNano()
    backs,     \* how often the wall clock was set back
    nonceLog   \* the nonces of the private requests, in the order generated

vars == <<procs, pc, call, req, nsent, resp, out, now, backs, nonceLog>>

clock == <<now, backs>>

\* The nonce a request body carries (the empty string if it has none).
NonceOf(body) ==
    IF \E i \in 1..Len(body) : body[i][1] = "nonce"
    THEN body[CHOOSE i \in 1..Len(body) : body[i][1] = "nonce"][2]
    ELSE <<>>

InitWith(P) ==
    /\ procs = P
    /\ pc = [p \in P |-> "idle"]
    /\ call = [p \in P |-> NoCall]
    /\ req = [p \in P |-> NoReq]
    /\ nsent = [p \in P |-> 0]
    /\ resp = [p \in P |-> NoResp]
    /\ out = [p \in P |-> NoOut]
    /\ backs = 0
    /\ nonceLog = <<>>

\* A doRequest that sends the request again.
Send_Twice(p, c, r) ==
    /\ pc[p] = "idle"
    /\ pc' = [pc EXCEPT ![p] = "waiting"]
    /\ call' = [call EXCEPT ![p] = c]
    /\ req' = [req EXCEPT ![p] = r]
    /\ nsent' = [nsent EXCEPT ![p] = @ + 2]
    /\ UNCHANGED <<procs, resp, out, clock>>

\* p starts call c by handing request r to the transport, and blocks.
Send(p, c, r) ==
    /\ pc[p] = "idle"
    /\ pc' = [pc EXCEPT ![p] = "waiting"]
    /\ call' = [call EXCEPT ![p] = c]
    /\ req' = [req EXCEPT ![p] = r]
    /\ nsent' = [nsent EXCEPT ![p] = @ + 1]
    /\ UNCHANGED <<procs, resp, out, clock>>

SendPublic(p, c, r) == Send(p, c, r) /\ UNCHANGED nonceLog

\* A private call reads the clock for its nonce.
SendPrivate(p, c, values) ==
    /\ Len(nonceLog) < MaxPrivCalls
    /\ Send(p, c, queryPrivate(c.m, values, now))
    /\ nonceLog' = Append(nonceLog, [nonce |-> NonceOf(req'[p].body), at |-> now,
                                     epoch |-> backs])

\* ---------------------------------------------------------------- actions
Time(p) == SendPublic(p, [NoCall EXCEPT !.m = "Time"], queryPublic("Time", <<>>))

Trades(p) ==
    \E pair \in Pairs, since \in Sinces :
        SendPublic(p, [NoCall EXCEPT !.m = "Trades", !.pair = pair, !.since = since],
                   queryPublic("Trades", TradesValues(pair, since)))

\* OHLC of call c: rejected before any request when the interval is not
\* supported, else sent.
OHLCStartWith(p, c, ov) ==
    IF ov.ok
    THEN SendPublic(p, c, queryPublic("OHLC", ov.values))
    ELSE /\ pc[p] = "idle"
         /\ pc' = [pc EXCEPT ![p] = "done"]
         /\ call' = [call EXCEPT ![p] = c]
         /\ out' = [out EXCEPT ![p] =
                      Returned(Nil, Err("OHLC", <<"Unsupported value for Interval: ">>
                                                \o c.interval), FALSE)]
         /\ UNCHANGED <<procs, req, nsent, resp, clock, nonceLog>>

OHLCStart(p, c) == OHLCStartWith(p, c, OHLCValues(c.pair, c.interval, c.since))

OHLC(p) ==
    \E pair \in Pairs, interval \in Intervals, since \in Sinces :
        OHLCStart(p, [NoCall EXCEPT !.m = "OHLC", !.pair = pair,
                                    !.interval = interval, !.since = since])

OHLCMinutes(p) ==
    \E pair \in Pairs :
        OHLCStart(p, [NoCall EXCEPT !.m = "OHLCMinutes", !.pair = pair,
                                    !.interval = <<"1">>, !.since = 0])

Depth(p) ==
    \E pair \in Pairs, count \in Counts :
        SendPublic(p, [NoCall EXCEPT !.m = "Depth", !.pair = pair, !.count = count],
                   queryPublic("Depth", DepthValues(pair, count)))

Balance(p) == SendPrivate(p, [NoCall EXCEPT !.m = "Balance"], <<>>)

CancelOrder(p) ==
    \E txid \in Txids :
        SendPrivate(p, [NoCall EXCEPT !.m = "CancelOrder", !.txid = txid],
                    CancelOrderValues(txid))

\* The orders in which Balance may visit the decoded map.
OrdersFor(c, d) ==
    IF c.m = "Balance" /\ d.err.nil /\ ~d.result.nil THEN Orders(DOMAIN d.result.v)
    ELSE { <<>> }

\* The transport answered p's request with o, doRequest gave d, and the
\* method finishes.
FinishedWith(p, o, d) ==
    /\ \E ord \in OrdersFor(call[p], d) :
          out' = [out EXCEPT ![p] = Finish(call[p], d, ord)]
    /\ resp' = [resp EXCEPT ![p] = o]
    /\ pc' = [pc EXCEPT ![p] = "done"]
    /\ UNCHANGED <<procs, call, req, nsent, clock, nonceLog>>

\* The transport answers p's request with o, doRequest goes on from
\* client.Do and the method finishes.
Finished(p, o) ==
    /\ pc[p] = "waiting"
    /\ FinishedWith(p, o, doRequest(o, TypOf(call[p].m)))

Respond(p) == pc[p] = "waiting" /\ \E o \in Outcomes(call[p]) : Finished(p, o)

RespondFew(p) == pc[p] = "waiting" /\ \E o \in FewOutcomes(call[p]) : Finished(p, o)

\* The caller goes on; p is free for its next call.
Reset(p) ==
    /\ pc[p] = "done"
    /\ pc' = [pc EXCEPT ![p] = "idle"]
    /\ call' = [call EXCEPT ![p] = NoCall]
    /\ req' = [req EXCEPT ![p] = NoReq]
    /\ nsent' = [nsent EXCEPT ![p] = 0]
    /\ resp' = [resp EXCEPT ![p] = NoResp]
    /\ out' = [out EXCEPT ![p] = NoOut]
    /\ UNCHANGED <<procs, clock, nonceLog>>

\* The wall clock advances.
Tick ==
    /\ now < MaxClock
    /\ now' = now + 1
    /\ UNCHANGED <<procs, pc, call, req, nsent, resp, out, backs, nonceLog>>

\* The wall clock is set back (time.Now().UnixNano() is wall time).
StepBack ==
    /\ backs < MaxBack
    /\ \E t \in MinClock..(now - 1) : now' = t
    /\ backs' = backs + 1
    /\ UNCHANGED <<procs, pc, call, req, nsent, resp, out, nonceLog>>

\* ---------------------------------------------------------- specifications
\* One call site; each call reads the clock once, the reading being any
\* value; every answer of the transport.
Init == InitWith({1}) /\ now \in MinClock..MaxClock

Next ==
    \/ \E p \in procs : Time(p)
    \/ \E p \in procs : Trades(p)
    \/ \E p \in procs : OHLC(p)
    \/ \E p \in procs : OHLCMinutes(p)
    \/ \E p \in procs : Depth(p)
    \/ \E p \in procs : Balance(p)
    \/ \E p \in procs : CancelOrder(p)
    \/ \E p \in procs : Respond(p)
    \/ \E p \in procs : Reset(p)

Spec == Init /\ [][Next]_vars

\* Two call sites making private calls while the clock moves.
InitClock == InitWith({1, 2}) /\ now = MinClock

NextClock ==
    \/ \E p \in procs : Balance(p)
    \/ \E p \in procs : CancelOrder(p)
    \/ \E p \in procs : RespondFew(p)
    \/ \E p \in procs : Reset(p)
    \/ Tick
    \/ StepBack

SpecClock == InitClock /\ [][NextClock]_vars

\* ----------------------------------------------------------------- claims
Contains(text, s) == \E i \in 1..Len(text) : text[i] = s

\* p's call is over and the transport had answered it.
Answered(p) == pc[p] = "done" /\ resp[p].kind # "none"

\* The header names a JSON media type that mime.ParseMediaType accepts.
JsonType(ct) == Lower(ct.type) = "application/json"
CtAccepted(ct) == JsonType(ct) /\ ct.params # "bad"

\* The body is an envelope whose error member is a non-empty array of strings.
ReportsErrors(body) ==
    /\ body.syn = "ok" /\ body.error.k = "arr" /\ Len(body.error.a) > 0
    /\ \A i \in 1..Len(body.error.a) : body.error.a[i].k = "str"

\* C1: a response with the JSON content type whose body is an envelope with
\* a non-empty error sequence makes the call return no result and an error
\* whose text contains every error string of the server, whatever the
\* result member holds and whatever the target shape is.
C1_ExchangeErrorReported ==
    \A p \in procs :
        (Answered(p) /\ resp[p].kind = "resp" /\ CtAccepted(resp[p].ct)
         /\ ReportsErrors(resp[p].body))
        => /\ out[p].st = "returned"
           /\ out[p].result.nil
           /\ ~out[p].err.nil
           /\ \A i \in 1..Len(resp[p].body.error.a) :
                 Contains(out[p].err.text, resp[p].body.error.a[i].s)

\* C2: every call ends by returning either a non-nil result and a nil
\* error, or a nil result and a non-nil error; it never panics.
C2_ResultXorError ==
    \A p \in procs :
        pc[p] = "done"
        => /\ out[p].st = "returned"
           /\ out[p].result.nil # out[p].err.nil

\* C3 as claimed: every finished call handed exactly one request to the
\* transport.
C3_ExactlyOneRequest == \A p \in procs : pc[p] = "done" => nsent[p] = 1

\* OHLC rejects the call before it builds a request.
RejectedInterval(c) ==
    c.m = "OHLC" /\ c.interval # <<>> /\ c.interval \notin SupportedIntervals

\* C3 as amended: a call hands one POST request to the transport and never
\* a second one, whatever the answer; only an OHLC call with an unsupported
\* interval hands over none.
C3_OneRequestUnlessRejected ==
    \A p \in procs :
        /\ pc[p] = "idle" => nsent[p] = 0
        /\ pc[p] = "waiting" => nsent[p] = 1 /\ req[p].verb = "POST"
        /\ pc[p] = "done" => nsent[p] = (IF RejectedInterval(call[p]) THEN 0 ELSE 1)

C3_Witness ==
    \E p \in procs : pc[p] = "done" /\ out[p].err.site = "#7" /\ nsent[p] = 1

\* C4: a request of a private method carries the nonce made for it (the
\* decimal text of the clock reading), API-Key and API-Sign, the signature
\* being made of the request's path and of the nonce and the body that are
\* sent; a request of a public method carries no nonce and no header but
\* User-Agent.
C4_PrivateSignedPublicPlain ==
    \A p \in procs :
        nsent[p] > 0
        => /\ req[p].verb = "POST"
           /\ req[p].headers["User-Agent"] = APIUserAgent
           /\ call[p].m \in PrivateMethods
              => /\ \E i \in 1..Len(req[p].body) : req[p].body[i][1] = "nonce"
                 /\ NonceOf(req[p].body) = FormatInt(nonceLog[Len(nonceLog)].at)
                 /\ DOMAIN req[p].headers = {"User-Agent", "API-Key", "API-Sign"}
                 /\ req[p].headers["API-Key"] = APIKey
                 /\ req[p].url = <<APIURL, <<"/", APIVersion, "/private/", call[p].m>>>>
                 /\ req[p].headers["API-Sign"] =
                      Base64Encode(getHMacSha512(
                          <<req[p].url[2],
                            getSha256(<<NonceOf(req[p].body), req[p].body>>)>>,
                          Base64Decode(APISecret)))
           /\ call[p].m \in PublicMethods
              => /\ \A i \in 1..Len(req[p].body) : req[p].body[i][1] # "nonce"
                 /\ DOMAIN req[p].headers = {"User-Agent"}

C4_Witness ==
    \E p \in procs :
        /\ pc[p] = "waiting" /\ call[p].m = "CancelOrder"
        /\ NonceOf(req[p].body) = <<"1", "0">>
        /\ Len(req[p].body) = 2

TransportSites == {"#2", "#3"}
ContentTypeSites == {"#4", "#5"}

\* C5: a response whose content type is not the JSON media type gives a
\* content-type error, with no result and with the body never parsed, also
\* when the body is a success envelope.  The failures of doRequest are
\* checked in the order transport, content type, body, envelope error, and
\* a failing call reports the first that applies.
C5_ContentTypeBeforeBody ==
    \A p \in procs :
        Answered(p)
        => /\ (resp[p].kind = "resp" /\ ~JsonType(resp[p].ct))
              => /\ out[p].st = "returned" /\ out[p].result.nil
                 /\ out[p].err.site \in ContentTypeSites
                 /\ ~out[p].parsed
           /\ resp[p].kind \in {"doerr", "readerr"}
              => out[p].err.site \in TransportSites /\ ~out[p].parsed
           /\ (resp[p].kind = "resp" /\ ~CtAccepted(resp[p].ct))
              => out[p].err.site \in ContentTypeSites
           /\ (resp[p].kind = "resp" /\ CtAccepted(resp[p].ct)
               /\ resp[p].body.syn \in {"bad", "arr"})
              => out[p].err.site = "#6" /\ out[p].st = "returned" /\ out[p].result.nil
           /\ out[p].err.site = "#7"
              => /\ resp[p].kind = "resp" /\ CtAccepted(resp[p].ct)
                 /\ ReportsErrors(resp[p].body)
           /\ out[p].err.site = "#6"
              => resp[p].kind = "resp" /\ CtAccepted(resp[p].ct)

C5_Witness ==
    \E p \in procs :
        /\ Answered(p) /\ resp[p].kind = "resp"
        /\ resp[p].ct.type = "text/html"
        /\ resp[p].body = SuccessBody(call[p])
        /\ out[p].err.site = "#5" /\ out[p].result.nil /\ ~out[p].parsed

\* C6 as claimed: the nonces of the private requests are strictly
\* increasing in the order they are generated.
C6_NoncesStrictlyIncreasing ==
    \A i, j \in 1..Len(nonceLog) :
        i < j => ParseInt(nonceLog[i].nonce).v < ParseInt(nonceLog[j].nonce).v

\* C6 as amended: a nonce is the decimal text of the clock reading taken
\* for it; of two nonces the later is not smaller unless the clock was set
\* back in between, and it is greater exactly when the reading advanced.
C6_NoncesFollowClock ==
    /\ \A i \in 1..Len(nonceLog) : nonceLog[i].nonce = FormatInt(nonceLog[i].at)
    /\ \A i, j \in 1..Len(nonceLog) :
          (i < j /\ nonceLog[i].epoch = nonceLog[j].epoch)
          => /\ ParseInt(nonceLog[i].nonce).v <= ParseInt(nonceLog[j].nonce).v
             /\ ParseInt(nonceLog[i].nonce).v < ParseInt(nonceLog[j].nonce).v
                <=> nonceLog[i].at < nonceLog[j].at

C6_Witness ==
    /\ \A p \in procs : pc[p] = "waiting"
    /\ Len(nonceLog) = 2
    /\ nonceLog[1].nonce = <<"9">> /\ nonceLog[2].nonce = <<"1", "0">>

\* The trades of the result Trades returned to p.
ReturnedTrades(p) ==
    IF pc[p] = "done" /\ call[p].m = "Trades" /\ out[p].st = "returned" /\ ~out[p].result.nil
    THEN out[p].result.v.Trades
    ELSE <<>>

\* C7: in every trade of a result of Trades exactly one of Buy and Sell and
\* exactly one of Market and Limit is true.
C7_ExactlyOneSideAndKind ==
    \A p \in procs : \A i \in 1..Len(ReturnedTrades(p)) :
        /\ ReturnedTrades(p)[i].Buy # ReturnedTrades(p)[i].Sell
        /\ ReturnedTrades(p)[i].Market # ReturnedTrades(p)[i].Limit

\* C8: no result of Trades holds a trade whose price text does not parse:
\* such an answer is returned as an error.
C8_BadPriceIsAnError ==
    \A p \in procs : \A i \in 1..Len(ReturnedTrades(p)) :
        ~ParseFloat(ReturnedTrades(p)[i].Price).err

\* The asset map the server answered p's Balance call with: doRequest
\* accepted the response and its result is an object of strings.
AssetMapAnswered(p) ==
    /\ Answered(p) /\ call[p].m = "Balance"
    /\ resp[p].kind = "resp" /\ CtAccepted(resp[p].ct)
    /\ resp[p].body.syn = "ok"
    /\ resp[p].body.error \in {JAbsent, JArr(<<>>)}
    /\ resp[p].body.result.k = "obj"
    /\ \A a \in DOMAIN resp[p].body.result.o : resp[p].body.result.o[a].k = "str"

\* C9: Balance returns an error and no result when a value of the asset map
\* does not parse, in whatever order the map is visited; else it returns
\* the server's asset codes, each with its parsed value.
C9_BalanceAllOrNothing ==
    \A p \in procs :
        AssetMapAnswered(p)
        => /\ out[p].st = "returned"
           /\ IF \E a \in DOMAIN resp[p].body.result.o :
                    ParseFloat(resp[p].body.result.o[a].s).err
              THEN out[p].result.nil /\ ~out[p].err.nil
              ELSE /\ out[p].err.nil /\ ~out[p].result.nil
                   /\ DOMAIN out[p].result.v = DOMAIN resp[p].body.result.o
                   /\ \A a \in DOMAIN resp[p].body.result.o :
                         out[p].result.v[a] = ParseFloat(resp[p].body.result.o[a].s).v

C9_Witness ==
    \E p \in procs :
        /\ AssetMapAnswered(p)
        /\ DOMAIN resp[p].body.result.o = {"ZUSD", "XXBT"}
        /\ ~ParseFloat(resp[p].body.result.o["ZUSD"].s).err
        /\ ParseFloat(resp[p].body.result.o["XXBT"].s).err
        /\ out[p].result.nil /\ ~out[p].err.nil

\* The order book Depth returned to p (no levels when it returned none).
DepthReturned(p) ==
    pc[p] = "done" /\ call[p].m = "Depth" /\ out[p].st = "returned" /\ ~out[p].result.nil

\* The number of levels the server sent for the pair of p's call.
ServerLevels(p, side) ==
    IF /\ resp[p].body.result.k = "obj"
       /\ call[p].pair \in DOMAIN resp[p].body.result.o
       /\ resp[p].body.result.o[call[p].pair].k = "obj"
       /\ side \in DOMAIN resp[p].body.result.o[call[p].pair].o
       /\ resp[p].body.result.o[call[p].pair].o[side].k = "arr"
    THEN Len(resp[p].body.result.o[call[p].pair].o[side].a)
    ELSE 0

SentLevels(p, side) ==
    IF ServerLevels(p, side) > 0
    THEN resp[p].body.result.o[call[p].pair].o[side].a
    ELSE <<>>

\* The level a JSON array [priceStr, volumeStr, timestamp] stands for.
LevelOf(j) ==
    [Price |-> ParseFloat(j.a[1].s).v, Amount |-> ParseFloat(j.a[2].s).v,
     Ts |-> j.a[3].n \div 10]

\* j is an array of levels whose prices and volumes are numbers.
WellFormedSide(j) ==
    /\ j.k = "arr"
    /\ \A i \in 1..Len(j.a) :
          /\ j.a[i].k = "arr" /\ Len(j.a[i].a) = 3
          /\ j.a[i].a[1].k = "str" /\ ~ParseFloat(j.a[i].a[1].s).err
          /\ j.a[i].a[2].k = "str" /\ ~ParseFloat(j.a[i].a[2].s).err
          /\ Integral(j.a[i].a[3])

\* p's Depth call was answered with a success envelope that holds the book
\* of the pair, and only that, with well-formed asks and bids.
BookAnswered(p) ==
    /\ Answered(p) /\ call[p].m = "Depth"
    /\ resp[p].kind = "resp" /\ CtAccepted(resp[p].ct)
    /\ resp[p].body.syn = "ok"
    /\ resp[p].body.error \in {JAbsent, JArr(<<>>)}
    /\ resp[p].body.result.k = "obj"
    /\ DOMAIN resp[p].body.result.o = {call[p].pair}
    /\ resp[p].body.result.o[call[p].pair].k = "obj"
    /\ DOMAIN resp[p].body.result.o[call[p].pair].o = {"asks", "bids"}
    /\ WellFormedSide(resp[p].body.result.o[call[p].pair].o["asks"])
    /\ WellFormedSide(resp[p].body.result.o[call[p].pair].o["bids"])

Params(body) == { body[i] : i \in 1..Len(body) }

\* The interval an OHLC call sends: "1" for the empty one.
SentInterval(c) == IF c.interval = <<>> THEN <<"1">> ELSE c.interval

\* The since parameter a call sends: none unless since is greater than 0.
SentSince(c) == IF c.since > 0 THEN {<<"since", FormatInt(c.since)>>} ELSE {}

\* C12: an OHLC call whose interval is not empty and not supported returns
\* an error and no result with no request handed to the transport; every
\* other OHLC call sends one request with the pair, the interval ("1" for
\* the empty one, a supported one unchanged) and since only when it is
\* greater than 0.
C12_IntervalValidatedFirst ==
    \A p \in procs :
        call[p].m \in {"OHLC", "OHLCMinutes"}
        => IF RejectedInterval(call[p])
           THEN /\ pc[p] = "done" /\ nsent[p] = 0
                /\ req[p] = NoReq /\ resp[p].kind = "none"
                /\ out[p].st = "returned" /\ out[p].result.nil /\ ~out[p].err.nil
           ELSE /\ nsent[p] = 1
                /\ req[p].verb = "POST"
                /\ req[p].url = <<APIURL, <<"/", APIVersion, "/public/", "OHLC">>>>
                /\ Params(req[p].body) =
                     {<<"pair", call[p].pair>>, <<"interval", SentInterval(call[p])>>}
                     \cup SentSince(call[p])
                /\ Len(req[p].body) = 2 + Cardinality(SentSince(call[p]))
                /\ call[p].m = "OHLCMinutes"
                   => SentInterval(call[p]) = <<"1">> /\ SentSince(call[p]) = {}

C12_Witness ==
    \E p \in procs :
        /\ pc[p] = "done" /\ call[p].m = "OHLC"
        /\ call[p].interval = <<"1", "0">> /\ call[p].since = 5
        /\ nsent[p] = 0 /\ req[p] = NoReq
        /\ out[p].result.nil /\ ~out[p].err.nil

====
